---------------------------- MODULE Spec2Model ----------------------------
(***************************************************************************)
(* mcp-server-zenn: the tool dispatcher (call_tool), the two query models  *)
(* (Article, Book), the HTTP fetch adapter (request) and the list          *)
(* handlers of src/mcp_server_zenn/server.py.                              *)
(*                                                                         *)
(* Python values are tagged records (None / str / int); text is a TLA+     *)
(* string, taken apart with Len, SubSeq and \o.  A dict is a function      *)
(* whose DOMAIN is the set of keys present.                                *)
(***************************************************************************)
EXTENDS Integers, Sequences, FiniteSets, TLC

\* Per invocation slot of call_tool:
\*   pc         where the invocation stands: idle, awaiting (the GET is out),
\*              closing (answered, leaving the async with block), done
\*   name       the name argument
\*   arguments  the arguments argument
\*   client     whether the invocation's httpx.AsyncClient is open
\*   requests   the GETs the invocation has issued
\*   response   the upstream's answer to the GET
\*   outcome    what the invocation returned or raised
\* listed       the last answer of a list handler
VARIABLES pc, name, arguments, client, requests, response, outcome, listed

vars == <<pc, name, arguments, client, requests, response, outcome, listed>>

(***************************************************************************)
(* Bounds of the model.                                                    *)
(***************************************************************************)
NumCalls == 2      \* invocation slots the protocol shell may run concurrently
MaxPage == 2       \* integer page numbers 0..MaxPage are supplied

Calls == 1..NumCalls

(***************************************************************************)
(* Text.                                                                   *)
(***************************************************************************)
UpperToLower ==
    [c \in {"A","B","C","D","E","F","G","H","I","J","K","L","M",
            "N","O","P","Q","R","S","T","U","V","W","X","Y","Z"} |->
        CASE c = "A" -> "a" [] c = "B" -> "b" [] c = "C" -> "c" [] c = "D" -> "d"
          [] c = "E" -> "e" [] c = "F" -> "f" [] c = "G" -> "g" [] c = "H" -> "h"
          [] c = "I" -> "i" [] c = "J" -> "j" [] c = "K" -> "k" [] c = "L" -> "l"
          [] c = "M" -> "m" [] c = "N" -> "n" [] c = "O" -> "o" [] c = "P" -> "p"
          [] c = "Q" -> "q" [] c = "R" -> "r" [] c = "S" -> "s" [] c = "T" -> "t"
          [] c = "U" -> "u" [] c = "V" -> "v" [] c = "W" -> "w" [] c = "X" -> "x"
          [] c = "Y" -> "y" [] c = "Z" -> "z"]

LowerChar(c) == IF c \in DOMAIN UpperToLower THEN UpperToLower[c] ELSE c

RECURSIVE LowerFrom(_, _)
LowerFrom(s, i) ==
    IF i > Len(s) THEN "" ELSE LowerChar(SubSeq(s, i, i)) \o LowerFrom(s, i + 1)

\* str.lower()
Lower(s) == LowerFrom(s, 1)

\* t in s
Contains(s, t) ==
    \E i \in 1..(Len(s) - Len(t) + 1) : SubSeq(s, i, i + Len(t) - 1) = t

StartsWith(s, t) == Len(t) <= Len(s) /\ SubSeq(s, 1, Len(t)) = t

DigitValue ==
    [c \in {"0","1","2","3","4","5","6","7","8","9"} |->
        CASE c = "0" -> 0 [] c = "1" -> 1 [] c = "2" -> 2 [] c = "3" -> 3
          [] c = "4" -> 4 [] c = "5" -> 5 [] c = "6" -> 6 [] c = "7" -> 7
          [] c = "8" -> 8 [] c = "9" -> 9]

IsDigits(s) ==
    Len(s) > 0 /\ \A i \in 1..Len(s) : SubSeq(s, i, i) \in DOMAIN DigitValue

RECURSIVE DigitsToInt(_, _)
DigitsToInt(s, n) ==
    IF n = 0 THEN 0
    ELSE 10 * DigitsToInt(s, n - 1) + DigitValue[SubSeq(s, n, n)]

(***************************************************************************)
(* Python values.                                                          *)
(***************************************************************************)
PyNone == [t |-> "NoneType", s |-> "", n |-> 0]
PyStr(x) == [t |-> "str", s |-> x, n |-> 0]
PyInt(x) == [t |-> "int", s |-> "", n |-> x]

\* bool(v): None, "" and 0 are falsy
TruthyUnlessNone(v) == v.t # "NoneType"
Truthy(v) ==
    CASE v.t = "NoneType" -> FALSE
      [] v.t = "str" -> v.s # ""
      [] v.t = "int" -> v.n # 0

\* str(v), as an f-string or a URL parameter renders it
Format(v) ==
    CASE v.t = "NoneType" -> "None"
      [] v.t = "str" -> v.s
      [] v.t = "int" -> ToString(v.n)

\* dict.get(key, default)
Get(d, key, default) == IF key \in DOMAIN d THEN d[key] ELSE default

EmptyDict == [k \in {} |-> PyNone]

\* d[key] = v
Put(d, key, v) == (key :> v) @@ d

\* an exception: its class and str(e)
Exc(type, msg) == [type |-> type, msg |-> msg]

Ok(v) == [ok |-> TRUE, val |-> v, err |-> Exc("", "")]
Err(e) == [ok |-> FALSE, val |-> PyNone, err |-> e]

(***************************************************************************)
(* Module constants and enumerations.                                      *)
(***************************************************************************)
APP_NAME == "mcp-server-zenn"
BASE_URL == "https://zenn.dev/api/"

ZennTool == [ARTICLE |-> "article", BOOK |-> "book"]
URLResource == [ARTICLES |-> "articles", BOOKS |-> "books"]
Order == [LATEST |-> "latest", OLDEST |-> "oldest"]

\* the members of Order, in definition order
OrderMembers == <<"LATEST", "OLDEST">>

RECURSIVE OrderScan(_, _)
OrderScan(order, i) ==
    IF i > Len(OrderMembers)
    THEN Err(Exc("ValueError", "Invalid order value: " \o Format(order)))
    ELSE IF Order[OrderMembers[i]] = Lower(order.s)
         THEN Ok(PyStr(OrderMembers[i]))
         ELSE OrderScan(order, i + 1)

\* Order.from_str(order): order.lower() needs a str
Order_from_str_exact(order) ==
    IF order.t # "str"
    THEN Err(Exc("AttributeError",
                 "'" \o order.t \o "' object has no attribute 'lower'"))
    ELSE IF \E i \in 1..Len(OrderMembers) : Order[OrderMembers[i]] = order.s
         THEN Ok(PyStr(CHOOSE m \in {"LATEST", "OLDEST"} : Order[m] = order.s))
         ELSE Err(Exc("ValueError", "Invalid order value: " \o Format(order)))
Order_from_str(order) ==
    IF order.t # "str"
    THEN Err(Exc("AttributeError",
                 "'" \o order.t \o "' object has no attribute 'lower'"))
    ELSE OrderScan(order, 1)

(***************************************************************************)
(* Query models: class Article and class Book (pydantic BaseModel).        *)
(***************************************************************************)
\* Optional[str]: None or a str; nothing else is coerced to str
ValidateStr(field, v) ==
    IF v.t \in {"NoneType", "str"}
    THEN Ok(v)
    ELSE Err(Exc("field", "\n" \o field \o "\n  Input should be a valid string"))

\* Optional[int]: None, an int, or a str of digits (parsed)
ValidateInt(field, v) ==
    CASE v.t = "NoneType" -> Ok(v)
      [] v.t = "int" -> Ok(v)
      [] v.t = "str" ->
           IF IsDigits(v.s)
           THEN Ok(PyInt(DigitsToInt(v.s, Len(v.s))))
           ELSE Err(Exc("field", "\n" \o field \o "\n  Input should be a valid integer, "
                                 \o "unable to parse string as an integer"))

\* cls(username=..., topicname=..., order=..., page=..., count=...):
\* every field is validated and all failures are reported together
Construct(cls, username, topicname, order, page, count) ==
    LET u == ValidateStr("username", username)
        t == ValidateStr("topicname", topicname)
        p == ValidateInt("page", page)
        c == ValidateInt("count", count)
        failed == SelectSeq(<<u, t, p, c>>, LAMBDA r : ~r.ok)
        lines == [i \in 1..Len(failed) |-> failed[i].err.msg]
        joined == IF Len(failed) = 1 THEN lines[1]
                  ELSE IF Len(failed) = 2 THEN lines[1] \o lines[2]
                  ELSE IF Len(failed) = 3 THEN lines[1] \o lines[2] \o lines[3]
                  ELSE lines[1] \o lines[2] \o lines[3] \o lines[4]
    IN  IF Len(failed) = 0
        THEN [ok |-> TRUE,
              val |-> [cls |-> cls, username |-> u.val, topicname |-> t.val,
                       order |-> order, page |-> p.val, count |-> c.val],
              err |-> Exc("", "")]
        ELSE [ok |-> FALSE,
              val |-> [cls |-> cls, username |-> PyNone, topicname |-> PyNone,
                       order |-> PyNone, page |-> PyNone, count |-> PyNone],
              err |-> Exc("ValidationError",
                          ToString(Len(failed)) \o " validation error"
                            \o (IF Len(failed) = 1 THEN "" ELSE "s")
                            \o " for " \o cls \o joined)]

DefaultPage == 1
DefaultCount == 48

\* shared body of Article.from_arguments and Book.from_arguments: only the
\* five known keys are read from the mapping
FromArguments(cls, args) ==
    LET order == Order_from_str(Get(args, "order", PyStr(Order.LATEST)))
    IN  IF ~order.ok
        THEN [ok |-> FALSE,
              val |-> [cls |-> cls, username |-> PyNone, topicname |-> PyNone,
                       order |-> PyNone, page |-> PyNone, count |-> PyNone],
              err |-> order.err]
        ELSE Construct(cls,
                       Get(args, "username", PyNone),
                       Get(args, "topicname", PyNone),
                       order.val,
                       Get(args, "page", PyInt(DefaultPage)),
                       Get(args, "count", PyInt(DefaultCount)))

Article_from_arguments(args) == FromArguments("Article", args)
Book_from_arguments(args) == FromArguments("Book", args)

\* shared body of Article.to_query_param and Book.to_query_param
ToQueryParamKeepCase(q) ==
    LET p1 == IF Truthy(q.username)
              THEN Put(EmptyDict, "username", q.username) ELSE EmptyDict
        p2 == IF Truthy(q.topicname)
              THEN Put(p1, "topicname", q.topicname) ELSE p1
        p3 == IF q.order.t # "NoneType"
              THEN Put(p2, "order", PyStr(Order[q.order.s])) ELSE p2
        p4 == IF Truthy(q.page) THEN Put(p3, "page", q.page) ELSE p3
        p5 == IF Truthy(q.count) THEN Put(p4, "count", q.count) ELSE p4
    IN  p5
ToQueryParam(q) ==
    LET p1 == IF Truthy(q.username)
              THEN Put(EmptyDict, "username", PyStr(Lower(q.username.s)))
              ELSE EmptyDict
        p2 == IF Truthy(q.topicname)
              THEN Put(p1, "topicname", PyStr(Lower(q.topicname.s)))
              ELSE p1
        p3 == IF q.order.t # "NoneType"
              THEN Put(p2, "order", PyStr(Order[q.order.s])) ELSE p2
        p4 == IF Truthy(q.page) THEN Put(p3, "page", q.page) ELSE p3
        p5 == IF Truthy(q.count) THEN Put(p4, "count", q.count) ELSE p4
    IN  p5

Article_to_query_param(q) == ToQueryParam(q)
Book_to_query_param(q) == ToQueryParam(q)

\* Article.tool() and Book.tool(): static descriptors
ToolDescriptor(toolname, description) ==
    [name |-> toolname,
     description |-> description,
     properties |-> {"username", "topicname", "order", "page", "count"},
     orderEnum |-> <<Order.LATEST, Order.OLDEST>>,
     required |-> {}]

Article_tool == ToolDescriptor(ZennTool.ARTICLE, "Fetch articles from Zenn.dev")
Book_tool == ToolDescriptor(ZennTool.BOOK, "Fetch books from Zenn.dev")

(***************************************************************************)
(* HTTP fetch adapter: request(resource, query).                           *)
(***************************************************************************)
\* urlencode of the params mapping, keys in insertion order
ParamOrder == <<"username", "topicname", "order", "page", "count">>

RECURSIVE QueryStringFrom(_, _, _)
QueryStringFrom(params, i, sep) ==
    IF i > Len(ParamOrder) THEN ""
    ELSE IF ParamOrder[i] \in DOMAIN params
         THEN sep \o ParamOrder[i] \o "=" \o Format(params[ParamOrder[i]])
                  \o QueryStringFrom(params, i + 1, "&")
         ELSE QueryStringFrom(params, i + 1, sep)

\* url = f"{BASE_URL}{resource.value}"; client.get(url, params=query)
GetRequest(resource, query) ==
    [method |-> "GET", url |-> BASE_URL \o resource, params |-> query]

\* what the upstream may answer to one GET
JsonBodies == {"{\"articles\": []}", "{\"books\": []}"}
NoResponse == [kind |-> "none", status |-> 0, body |-> ""]
TransportFailure == [kind |-> "transport_error", status |-> 0, body |-> ""]
HttpResponse(status, body) == [kind |-> "response", status |-> status, body |-> body]

ReasonPhrase(status) ==
    CASE status = 200 -> "OK"
      [] status = 404 -> "Not Found"
      [] status = 500 -> "Internal Server Error"

\* response.raise_for_status(): anything but 2xx raises
RaiseForStatus(req, resp) ==
    IF resp.status >= 200 /\ resp.status < 300
    THEN Ok(PyNone)
    ELSE Err(Exc("HTTPStatusError",
                 (IF resp.status >= 500 THEN "Server error '" ELSE "Client error '")
                   \o ToString(resp.status) \o " " \o ReasonPhrase(resp.status)
                   \o "' for url '" \o req.url \o QueryStringFrom(req.params, 1, "?")
                   \o "'"))

\* response.json(): the decoded body, a JSON object with one key and an
\* empty list
JsonLoads(body) ==
    CASE body = "{\"articles\": []}" -> Ok(PyStr("articles"))
      [] body = "{\"books\": []}" -> Ok(PyStr("books"))
      [] OTHER -> Err(Exc("JSONDecodeError",
                          "Expecting value: line 1 column 1 (char 0)"))

\* json.dumps(result, indent=2, ensure_ascii=False)
JsonDumps(result) == "{\n  \"" \o result.s \o "\": []\n}"

\* the body of the async with block, once the GET has been answered
RequestBody(req, resp) ==
    IF resp.kind = "transport_error"
    THEN Err(Exc("ConnectError", "All connection attempts failed"))
    ELSE LET status == RaiseForStatus(req, resp)
         IN  IF ~status.ok THEN status ELSE JsonLoads(resp.body)

\* async with httpx.AsyncClient() as client: whether the client is still
\* open once the block has been left with the given result
ClientLeakOnError(result) == ~result.ok
ClientAfterExit(result) == FALSE

(***************************************************************************)
(* Dispatcher: call_tool and the list handlers.                            *)
(***************************************************************************)
NoPlan == [ok |-> FALSE, err |-> Exc("", ""), resource |-> "", param |-> EmptyDict]

\* handle_articles + fetch_articles: build the Article query, then GET articles
handle_articles(args) ==
    LET query == Article_from_arguments(args)
    IN  IF query.ok
        THEN [NoPlan EXCEPT !.ok = TRUE, !.resource = URLResource.ARTICLES,
                            !.param = Article_to_query_param(query.val)]
        ELSE [NoPlan EXCEPT !.err = query.err]

\* handle_books + fetch_books: build the Book query, then GET books
handle_books_to_articles(args) ==
    LET query == Book_from_arguments(args)
    IN  IF query.ok
        THEN [NoPlan EXCEPT !.ok = TRUE, !.resource = URLResource.ARTICLES,
                            !.param = Book_to_query_param(query.val)]
        ELSE [NoPlan EXCEPT !.err = query.err]
handle_books(args) ==
    LET query == Book_from_arguments(args)
    IN  IF query.ok
        THEN [NoPlan EXCEPT !.ok = TRUE, !.resource = URLResource.BOOKS,
                            !.param = Book_to_query_param(query.val)]
        ELSE [NoPlan EXCEPT !.err = query.err]

\* match name: which case of call_tool the name selects
MatchNameIgnoringCase(n) ==
    CASE Lower(n) = ZennTool.ARTICLE -> "ARTICLE"
      [] Lower(n) = ZennTool.BOOK -> "BOOK"
      [] OTHER -> "_"
MatchName(n) ==
    CASE n = ZennTool.ARTICLE -> "ARTICLE"
      [] n = ZennTool.BOOK -> "BOOK"
      [] OTHER -> "_"

\* the try block of call_tool up to the first await on the network
Dispatch(n, args) ==
    CASE MatchName(n) = "ARTICLE" -> handle_articles(args)
      [] MatchName(n) = "BOOK" -> handle_books(args)
      [] OTHER -> [NoPlan EXCEPT !.err = Exc("ValueError", "Unknown tool: " \o n)]

\* what a finished invocation hands to the protocol shell
NoOutcome ==
    [kind |-> "none", error |-> Exc("", ""), cause |-> Exc("", ""), content |-> <<>>]
Returned(content) == [NoOutcome EXCEPT !.kind = "returned", !.content = content]
Raised(error, cause) ==
    [NoOutcome EXCEPT !.kind = "raised", !.error = error, !.cause = cause]

TextContent(text) == [type |-> "text", text |-> text]

\* except Exception as e: raise ValueError(f"Error processing {APP_NAME} query: {str(e)}")
ExceptOnlyValueError(e) ==
    IF e.type = "ValueError"
    THEN Raised(Exc("ValueError", "Error processing " \o APP_NAME \o " query: " \o e.msg), e)
    ELSE Raised(e, e)
ExceptDroppingText(e) ==
    Raised(Exc("ValueError", "Error processing " \o APP_NAME \o " query"), e)
call_tool_except(e) ==
    Raised(Exc("ValueError", "Error processing " \o APP_NAME \o " query: " \o e.msg), e)

\* return [TextContent(type="text", text=json.dumps(result, ...))]
call_tool_return(result) == Returned(<<TextContent(JsonDumps(result))>>)

\* list_tools(), handle_list_prompts(), handle_list_resources()
list_tools_reversed == <<Book_tool, Article_tool>>
list_tools == <<Article_tool, Book_tool>>
handle_list_prompts == <<>>
handle_list_resources == <<>>

(***************************************************************************)
(* Inputs.                                                                 *)
(***************************************************************************)
Absent == [t |-> "absent", s |-> "", n |-> 0]

\* the argument mapping holding the supplied keys only
MkArgs(u, t, o, p, c, x) ==
    LET all == [k \in {"username", "topicname", "order", "page", "count", "limit"} |->
                   CASE k = "username" -> u [] k = "topicname" -> t
                     [] k = "order" -> o [] k = "page" -> p
                     [] k = "count" -> c [] k = "limit" -> x]
        present == {k \in DOMAIN all : all[k] # Absent}
    IN  [k \in present |-> all[k]]

Usernames == {Absent, PyNone, PyStr(""), PyStr("SomeUser"), PyInt(123)}
Topicnames == {Absent, PyStr(""), PyStr("Python")}
Orders == {Absent, PyNone, PyStr("latest"), PyStr("LATEST"), PyStr("Oldest"),
           PyStr("bogus"), PyStr("")}
Pages == {Absent, PyNone, PyStr("abc"), PyStr("2")} \cup {PyInt(i) : i \in 0..MaxPage}
Counts == {Absent, PyNone, PyInt(0), PyInt(10)}

ArgumentSpace ==
    {MkArgs(u, t, o, Absent, Absent, Absent) :
        u \in Usernames, t \in Topicnames, o \in {Absent, PyStr("Oldest")}}
    \cup {MkArgs(u, Absent, o, p, c, Absent) :
        u \in {Absent, PyStr("SomeUser")}, o \in Orders, p \in Pages, c \in Counts}
    \cup {MkArgs(u, Absent, o, p, Absent, PyInt(5)) :
        u \in {Absent, PyStr("SomeUser")}, o \in {Absent, PyStr("bogus")},
        p \in {Absent, PyInt(0)}}

ToolNames == {"article", "book", "Article", "unknown_tool"}

Inputs ==
    ({"article", "book"} \X ArgumentSpace)
    \cup (ToolNames \X {MkArgs(Absent, Absent, o, Absent, Absent, Absent) :
                          o \in {Absent, PyStr("bogus")}})

ConcurrentInputs ==
    {"article", "book", "unknown_tool"}
    \X {EmptyDict,
        MkArgs(Absent, Absent, PyStr("bogus"), Absent, Absent, Absent),
        MkArgs(PyStr("SomeUser"), Absent, Absent, PyInt(0), Absent, Absent)}

Responses ==
    {TransportFailure, HttpResponse(404, "Not Found"), HttpResponse(500, "oops"),
     HttpResponse(200, "<html>")}
    \cup {HttpResponse(200, b) : b \in JsonBodies}

ConcurrentResponses ==
    {TransportFailure, HttpResponse(404, "Not Found"), HttpResponse(200, "<html>"),
     HttpResponse(200, "{\"articles\": []}")}

(***************************************************************************)
(* The state machine.  An invocation of call_tool runs from its entry to   *)
(* the await of client.get (CallTool), resumes when the GET is answered    *)
(* (Receive), and leaves the async with block and the handler (Exit).      *)
(***************************************************************************)
NotListed == [op |-> "none", result |-> <<>>]

Init ==
    /\ pc = [c \in Calls |-> "idle"]
    /\ name = [c \in Calls |-> ""]
    /\ arguments = [c \in Calls |-> EmptyDict]
    /\ client = [c \in Calls |-> FALSE]
    /\ requests = [c \in Calls |-> <<>>]
    /\ response = [c \in Calls |-> NoResponse]
    /\ outcome = [c \in Calls |-> NoOutcome]
    /\ listed = NotListed

CallTool(c, n, args) ==
    /\ pc[c] = "idle"
    /\ name' = [name EXCEPT ![c] = n]
    /\ arguments' = [arguments EXCEPT ![c] = args]
    /\ LET plan == Dispatch(n, args)
       IN  IF plan.ok
           THEN /\ client' = [client EXCEPT ![c] = TRUE]
                /\ requests' = [requests EXCEPT
                                  ![c] = <<GetRequest(plan.resource, plan.param)>>]
                /\ pc' = [pc EXCEPT ![c] = "awaiting"]
                /\ outcome' = [outcome EXCEPT ![c] = NoOutcome]
           ELSE /\ outcome' = [outcome EXCEPT ![c] = call_tool_except(plan.err)]
                /\ pc' = [pc EXCEPT ![c] = "done"]
                /\ UNCHANGED <<client, requests>>
    /\ UNCHANGED <<response, listed>>

Receive(c, resp) ==
    /\ pc[c] = "awaiting"
    /\ response' = [response EXCEPT ![c] = resp]
    /\ pc' = [pc EXCEPT ![c] = "closing"]
    /\ UNCHANGED <<name, arguments, client, requests, outcome, listed>>

Exit(c) ==
    /\ pc[c] = "closing"
    /\ LET result == RequestBody(requests[c][1], response[c])
       IN  /\ client' = [client EXCEPT ![c] = ClientAfterExit(result)]
           /\ outcome' = [outcome EXCEPT
                            ![c] = IF result.ok THEN call_tool_return(result.val)
                                   ELSE call_tool_except(result.err)]
    /\ pc' = [pc EXCEPT ![c] = "done"]
    /\ UNCHANGED <<name, arguments, requests, response, listed>>

\* the shell has taken the outcome; the slot is free for the next invocation
Return(c) ==
    /\ pc[c] = "done"
    /\ pc' = [pc EXCEPT ![c] = "idle"]
    /\ name' = [name EXCEPT ![c] = ""]
    /\ arguments' = [arguments EXCEPT ![c] = EmptyDict]
    /\ requests' = [requests EXCEPT ![c] = <<>>]
    /\ response' = [response EXCEPT ![c] = NoResponse]
    /\ outcome' = [outcome EXCEPT ![c] = NoOutcome]
    /\ UNCHANGED <<client, listed>>

ListTools ==
    /\ listed' = [op |-> "listTools", result |-> list_tools]
    /\ UNCHANGED <<pc, name, arguments, client, requests, response, outcome>>

ListPrompts ==
    /\ listed' = [op |-> "listPrompts", result |-> handle_list_prompts]
    /\ UNCHANGED <<pc, name, arguments, client, requests, response, outcome>>

ListResources ==
    /\ listed' = [op |-> "listResources", result |-> handle_list_resources]
    /\ UNCHANGED <<pc, name, arguments, client, requests, response, outcome>>

\* one invocation at a time, over the whole input space
Next ==
    \/ \E in \in Inputs : CallTool(1, in[1], in[2])
    \/ \E resp \in Responses : Receive(1, resp)
    \/ Exit(1)
    \/ Return(1)
    \/ ListTools
    \/ ListPrompts
    \/ ListResources

Spec == Init /\ [][Next]_vars

\* up to NumCalls invocations in flight at once
NextConcurrent ==
    \/ \E c \in Calls, in \in ConcurrentInputs : CallTool(c, in[1], in[2])
    \/ \E c \in Calls, resp \in ConcurrentResponses : Receive(c, resp)
    \/ \E c \in Calls : Exit(c)
    \/ \E c \in Calls : Return(c)

SpecConcurrent == Init /\ [][NextConcurrent]_vars

(***************************************************************************)
(* Properties.                                                             *)
(***************************************************************************)
KnownTools == {"article", "book"}
KnownKeys == {"username", "topicname", "order", "page", "count"}
UpperCase == DOMAIN UpperToLower
ErrorPrefix == "Error processing mcp-server-zenn query: "

Failed(c) == pc[c] = "done" /\ outcome[c].kind = "raised"
Fetched(c) == requests[c] # <<>>

\* x is y with every upper-case letter replaced by its lower-case letter
IsLowerOf(x, y) ==
    /\ Len(x) = Len(y)
    /\ \A i \in 1..Len(y) :
          LET a == SubSeq(y, i, i)
              b == SubSeq(x, i, i)
          IN  /\ b \notin UpperCase
              /\ \/ a = b
                 \/ a \in UpperCase /\ UpperToLower[a] = b

\* C1: every invocation that ends in failure, at whatever step, ends with
\* the normalized error built at the call_tool boundary (a ValueError whose
\* message starts with the fixed prefix), never with the original exception;
\* an invocation returns content only when the GET was answered 2xx with JSON.
C1_NormalizedError ==
    \A c \in Calls :
        pc[c] = "done" =>
            \/ /\ outcome[c].kind = "returned"
               /\ response[c].status = 200
               /\ response[c].body \in JsonBodies
            \/ /\ outcome[c].kind = "raised"
               /\ outcome[c].error.type = "ValueError"
               /\ StartsWith(outcome[c].error.msg, ErrorPrefix)
               /\ outcome[c].error # outcome[c].cause

C1_Witness ==
    \E c \in Calls :
        /\ Failed(c)
        /\ outcome[c].cause.type = "HTTPStatusError"
        /\ outcome[c].error.type = "ValueError"

\* C2 (as claimed): the message of every normalized error contains the
\* original message text and the name of the invoked tool.
C2_MessageNamesTool ==
    \A c \in Calls :
        Failed(c) =>
            /\ Contains(outcome[c].error.msg, outcome[c].cause.msg)
            /\ Contains(outcome[c].error.msg, name[c])

\* C2 (amended): the message of every normalized error contains the original
\* message text and the application name "mcp-server-zenn"; the tool name is
\* in it when the original error is the unknown-tool error.
C2_MessageNamesApp ==
    \A c \in Calls :
        Failed(c) =>
            /\ outcome[c].cause.msg # ""
            /\ Contains(outcome[c].error.msg, outcome[c].cause.msg)
            /\ Contains(outcome[c].error.msg, "mcp-server-zenn")
            /\ (name[c] \notin KnownTools =>
                    Contains(outcome[c].error.msg, "Unknown tool: " \o name[c]))

C2_Witness ==
    \E c \in Calls :
        /\ Failed(c)
        /\ name[c] = "book"
        /\ outcome[c].cause.msg = "Invalid order value: bogus"
        /\ ~Contains(outcome[c].error.msg, "book")

\* C3: an invocation whose name is not exactly "article" or "book" never
\* reaches a handler: it ends with the normalized error whose message
\* contains "Unknown tool" and the name, with no client opened and no
\* request issued.
C3_FailClosed ==
    \A c \in Calls :
        (pc[c] # "idle" /\ name[c] \notin KnownTools) =>
            /\ Failed(c)
            /\ Contains(outcome[c].error.msg, "Unknown tool")
            /\ Contains(outcome[c].error.msg, name[c])
            /\ requests[c] = <<>>
            /\ ~client[c]

C3_Witness ==
    \E c \in Calls : Failed(c) /\ name[c] = "Article" /\ requests[c] = <<>>

\* C4 (as claimed): the parameter mapping of every query that is built
\* contains the keys order, page and count.
C4_AlwaysThreeKeys ==
    \A c \in Calls :
        Fetched(c) => {"order", "page", "count"} \subseteq DOMAIN requests[c][1].params

\* the supplied page or count survives to_query_param: the key is missing
\* (the default applies) or its value is a non-zero integer
SuppliedNonZero(args, key) ==
    \/ key \notin DOMAIN args
    \/ args[key].t = "int" /\ args[key].n # 0
    \/ args[key].t = "str" /\ args[key].s \notin {"0", "00"}

\* C4 (amended): the parameter mapping of every query that is built
\* contains order; it contains page (count) exactly when page (count) was
\* not supplied or was supplied as a non-zero integer, so a page or count
\* supplied as 0 or null is left out.
C4_OrderAlwaysPageCountIfTruthy ==
    \A c \in Calls :
        Fetched(c) =>
            LET params == requests[c][1].params
            IN  /\ "order" \in DOMAIN params
                /\ "page" \in DOMAIN params <=> SuppliedNonZero(arguments[c], "page")
                /\ "count" \in DOMAIN params <=> SuppliedNonZero(arguments[c], "count")
                /\ "page" \in DOMAIN params => params["page"].t = "int"
                /\ "count" \in DOMAIN params => params["count"].t = "int"

C4_Witness ==
    \E c \in Calls :
        /\ Fetched(c)
        /\ "page" \in DOMAIN arguments[c]
        /\ arguments[c]["page"] = PyInt(0)
        /\ "page" \notin DOMAIN requests[c][1].params
        /\ "order" \in DOMAIN requests[c][1].params

\* C5 (as claimed): an argument mapping with a key other than the five known
\* ones makes the invocation fail before any request is issued.
C5_UnknownFieldsRejected ==
    \A c \in Calls :
        (pc[c] # "idle" /\ ~(DOMAIN arguments[c] \subseteq KnownKeys)) =>
            /\ Failed(c)
            /\ requests[c] = <<>>

\* C6: in the parameter mapping of every query that is built, username
\* (topicname) is present exactly when a non-empty string was supplied for
\* it, and its value is then the lower-cased supplied string.
C6_NameFieldsLowerCased ==
    \A c \in Calls :
        Fetched(c) =>
            \A f \in {"username", "topicname"} :
                LET params == requests[c][1].params
                    args == arguments[c]
                IN  /\ f \in DOMAIN params <=>
                          (f \in DOMAIN args /\ args[f].t = "str" /\ args[f].s # "")
                    /\ f \in DOMAIN params =>
                          /\ params[f].t = "str"
                          /\ IsLowerOf(params[f].s, args[f].s)
                          /\ (args[f].s = "SomeUser" => params[f].s = "someuser")

C6_Witness ==
    \E c \in Calls :
        /\ Fetched(c)
        /\ "username" \in DOMAIN arguments[c]
        /\ arguments[c]["username"] = PyStr("SomeUser")
        /\ requests[c][1].params["username"] = PyStr("someuser")
        /\ "topicname" \notin DOMAIN requests[c][1].params

\* the supplied order names a sort order, up to letter case
OrderNamed(args) ==
    IF args["order"].t # "str" THEN "none"
    ELSE IF IsLowerOf("latest", args["order"].s) THEN "latest"
    ELSE IF IsLowerOf("oldest", args["order"].s) THEN "oldest"
    ELSE "none"

\* the invocation failed while parsing the order
OrderRejected(c) ==
    /\ Failed(c)
    /\ requests[c] = <<>>
    /\ \/ StartsWith(outcome[c].cause.msg, "Invalid order value: ")
       \/ outcome[c].cause.type = "AttributeError"

\* C7: for the two known tools, a missing order is sent as latest; an order
\* equal to latest or oldest up to letter case is never rejected and is sent
\* as that value; every other supplied order fails the construction, so no
\* request is issued.
C7_OrderParsing ==
    \A c \in Calls :
        (pc[c] # "idle" /\ name[c] \in KnownTools) =>
            LET args == arguments[c]
            IN  IF "order" \notin DOMAIN args
                THEN /\ ~OrderRejected(c)
                     /\ Fetched(c) => requests[c][1].params["order"] = PyStr("latest")
                ELSE IF OrderNamed(args) # "none"
                THEN /\ ~OrderRejected(c)
                     /\ Fetched(c) =>
                            requests[c][1].params["order"] = PyStr(OrderNamed(args))
                ELSE OrderRejected(c)

C7_Witness ==
    \E c \in Calls :
        /\ Fetched(c)
        /\ "order" \in DOMAIN arguments[c]
        /\ arguments[c]["order"] = PyStr("LATEST")
        /\ requests[c][1].params["order"] = PyStr("latest")

\* the arguments build a query: no order failure and no field failure
Validates(c) ==
    ~(Failed(c) /\ outcome[c].cause.type \in {"ValueError", "AttributeError",
                                               "ValidationError"})

\* C8: an invocation of article or book whose arguments validate has issued
\* exactly one GET, before and after the answer, whatever the answer; the
\* GET goes to base + "articles" for article and base + "books" for book,
\* carries at most the five known keys, and for empty arguments carries
\* exactly order=latest, page=1, count=48.
C8_SingleGet ==
    \A c \in Calls :
        (pc[c] # "idle" /\ name[c] \in KnownTools /\ Validates(c)) =>
            /\ Len(requests[c]) = 1
            /\ requests[c][1].method = "GET"
            /\ requests[c][1].url =
                   "https://zenn.dev/api/" \o (IF name[c] = "article" THEN "articles"
                                                                      ELSE "books")
            /\ DOMAIN requests[c][1].params \subseteq KnownKeys
            /\ (arguments[c] = EmptyDict =>
                    requests[c][1].params =
                        [k \in {"order", "page", "count"} |->
                            CASE k = "order" -> PyStr("latest")
                              [] k = "page" -> PyInt(1)
                              [] k = "count" -> PyInt(48)])

C8_Witness ==
    \E c \in Calls :
        /\ Failed(c)
        /\ name[c] = "book"
        /\ arguments[c] = EmptyDict
        /\ response[c].status = 500
        /\ Len(requests[c]) = 1

\* C9: whatever invocations came before, the last answer of listTools is
\* the two descriptors article then book, and the last answers of
\* listPrompts and listResources are empty.
C9_ListingsFixed ==
    /\ listed.op = "listTools" =>
          /\ Len(listed.result) = 2
          /\ listed.result[1].name = "article"
          /\ listed.result[2].name = "book"
    /\ listed.op \in {"listPrompts", "listResources"} => Len(listed.result) = 0

C9_Witness ==
    /\ listed.op = "listTools"
    /\ Failed(1)
    /\ Len(listed.result) = 2

\* C10: with invocations interleaved, an invocation holds an open client
\* exactly from the issue of its GET until it leaves the fetch, on every
\* exit path; when every invocation is idle or finished no client is open;
\* and the outcome of a finished invocation is determined by its own name,
\* arguments and response.
C10_ScopedClient ==
    /\ \A c \in Calls : client[c] <=> pc[c] \in {"awaiting", "closing"}
    /\ (\A c \in Calls : pc[c] \in {"idle", "done"}) => \A c \in Calls : ~client[c]
    /\ \A c \in Calls :
          pc[c] = "done" =>
              /\ outcome[c].kind = "returned" <=>
                    /\ name[c] \in KnownTools
                    /\ Fetched(c)
                    /\ response[c].status = 200
                    /\ response[c].body \in JsonBodies
              /\ name[c] \notin KnownTools =>
                    outcome[c].cause.msg = "Unknown tool: " \o name[c]
              /\ Fetched(c) =>
                    /\ response[c] # NoResponse
                    /\ Contains(requests[c][1].url, name[c])
                    /\ ("username" \in DOMAIN requests[c][1].params <=>
                            "username" \in DOMAIN arguments[c])
              /\ (Fetched(c) /\ response[c].status = 404) =>
                    outcome[c].cause.type = "HTTPStatusError"
              /\ (Fetched(c) /\ response[c].kind = "transport_error") =>
                    outcome[c].cause.type = "ConnectError"

C10_Witness ==
    \E c \in Calls, d \in Calls :
        /\ c # d
        /\ Failed(c)
        /\ response[c].kind = "transport_error"
        /\ ~client[c]
        /\ pc[d] = "awaiting"
        /\ client[d]

=============================================================================
